---------------------------- MODULE Spec2Model ----------------------------
(***************************************************************************)
(* Aperture: the relay race (A1Engine.fetchPage, A1EngineV2.                *)
(* fetchAndProcessPage), the document transformer (_processAndInject,      *)
(* sanitizeAndInject + renderPage) and the injected payload                *)
(* (_getVanguardScript), as state machines.                                *)
(*                                                                         *)
(* Markup is a sequence of tokens.  A token is a record                    *)
(*   [tag, attrs, val, ch]                                                 *)
(* tag "#text" is one character of text (ch); any other tag is a start or  *)
(* end tag whose contribution to the raw text is the opaque character "<". *)
(***************************************************************************)
EXTENDS Naturals, Integers, Sequences, FiniteSets

VARIABLES
    \* --- relay race (fetchPage / fetchAndProcessPage) ---
    engine,      \* "V1" (A1Engine) or "V2" (A1EngineV2)
    proxies,     \* this.proxies: sequence of relay address templates
    targetUrl,   \* the targetUrl argument
    mode,        \* options.mode
    opState,     \* "idle" | "racing" | "resolved" | "failed"
    opRaw,       \* rawHtml: the value Promise.any fulfilled with
    opResult,    \* what the operation resolved with
    opError,     \* message of the error the operation threw
    phase,       \* per attempt: position of the underlying operation
    promise,     \* per attempt: state of the promise fetchWithProxy returned
    reason,      \* per attempt: why the promise rejected
    value,       \* per attempt: the text the promise fulfilled with
    recvText,    \* per attempt: the text response.text() produced
    timer,       \* per attempt: "none" | "armed" | "cleared" | "fired"
    deadline,    \* per attempt: the time the timer is armed for
    aborted,     \* per attempt: controller.abort() was invoked
    requests,    \* the requests handed to fetch(), in order
    order,       \* attempts in the order their promises fulfilled
    now,         \* the clock, in milliseconds
    navPath,     \* the states the navigation has been in, oldest first
    \* --- document transformer ---
    tHtml,       \* the raw text given to the transformer
    tTarget,     \* the target address given to the transformer
    tPc,         \* "input" | "v2" | "v1"
    tOut,        \* what the transformer returned
    \* --- injected payload ---
    pEnv,        \* the surface the payload runs in
    pPc,         \* position in the self-invoking function
    pInstalled,  \* responsibilities installed
    pRan,        \* responsibilities whose handler has run to its end
    pEscaped,    \* an exception left the payload's code uncaught
    pTimers,     \* cleanDom timers pending (their delays)
    pLoaded,     \* DOMContentLoaded was dispatched
    pPasses,     \* the delays of the cleanDom passes run, in the order run
    \* --- the payload's handlers inside one rendered surface ---
    sEngine,     \* whose payload the surface runs: "V1" or "V2"
    sTarget,     \* TARGET_URL, the address the surface renders
    sParent,     \* what window.parent denotes: "controller" or "self"
    sEvent,      \* the last event or call handled, with what it caused
    \* --- cleanDom in one rendered surface ---
    cEngine,     \* whose payload the surface runs: "V1" or "V2"
    cDoc,        \* the elements of the document
    cBefore,     \* the elements the last pass started from
    cOverflow,   \* style.overflow of documentElement and of body
    cPasses,     \* passes run so far
    cPc,         \* "swept" right after a pass, "page" otherwise
    \* --- the controller ---
    tabs,        \* appState.tabs: the tab objects, in tab-bar order
    pages,       \* the page containers of #page-views: [id, srcdoc]
    activeTabId, \* appState.activeTabId
    navs,        \* calls of navigateTo waiting at their await, oldest first
    globalHistory, \* appState.globalHistory, newest first
    clock,       \* Date.now()
    nextRef,     \* tab objects created so far, plus one
    navCount     \* history-pushing calls of navigateTo so far

fetchVars == <<engine, proxies, targetUrl, mode, opState, opRaw, opResult, opError,
               phase, promise, reason, value, recvText, timer, deadline, aborted,
               requests, order, now, navPath>>
xformVars == <<tHtml, tTarget, tPc, tOut>>
payloadVars == <<pEnv, pPc, pInstalled, pRan, pEscaped, pTimers, pLoaded, pPasses>>
surfaceVars == <<sEngine, sTarget, sParent, sEvent>>
cleanupVars == <<cEngine, cDoc, cBefore, cOverflow, cPasses, cPc>>
ctlVars == <<tabs, pages, activeTabId, navs, globalHistory, clock, nextRef, navCount>>
restVars == <<surfaceVars, cleanupVars, ctlVars>>
vars == <<fetchVars, xformVars, payloadVars, restVars>>

-----------------------------------------------------------------------------
(* Bounds *)

\* Most tab objects created.
MaxTabs == 2
\* Most calls of navigateTo that push to the history.
MaxNavs == 3
\* Most calls of navigateTo waiting at their await at once.
MaxPending == 2

\* Largest relay set raced.
MaxRelays == 2
\* Longest raw text handed to the transformer, in tokens.
MaxLen == 3

-----------------------------------------------------------------------------
(* Markup tokens *)

El(tag, attrs) == [tag |-> tag, attrs |-> attrs, val |-> <<>>, ch |-> "<"]
ElV(tag, attrs, val) == [tag |-> tag, attrs |-> attrs, val |-> val, ch |-> "<"]
Ch(c) == [tag |-> "#text", attrs |-> {}, val |-> <<>>, ch |-> c]
Txt(s) == [i \in 1..Len(s) |-> Ch(s[i])]

\* The characters of a raw text, as the regular expression sees them.
RawChars(text) == [i \in 1..Len(text) |-> text[i].ch]

-----------------------------------------------------------------------------
(* Challenge detection: /Cloudflare|hCaptcha|Verifying you are human|       *)
(* Checking your browser/i.test(text)                                      *)

Upper == <<"A","B","C","D","E","F","G","H","I","J","K","L","M",
           "N","O","P","Q","R","S","T","U","V","W","X","Y","Z">>
Lower == <<"a","b","c","d","e","f","g","h","i","j","k","l","m",
           "n","o","p","q","r","s","t","u","v","w","x","y","z">>

\* Case folding of one character (the i flag).
FoldCase(c) ==
    IF \E k \in 1..26 : Upper[k] = c
    THEN Lower[CHOOSE k \in 1..26 : Upper[k] = c]
    ELSE c

FoldAll(s) == [i \in 1..Len(s) |-> FoldCase(s[i])]

\* The alternatives of the regular expression, as written in the source.
ChallengeTerms == {
    <<"C","l","o","u","d","f","l","a","r","e">>,
    <<"h","C","a","p","t","c","h","a">>,
    <<"V","e","r","i","f","y","i","n","g"," ","y","o","u"," ","a","r","e"," ","h","u","m","a","n">>,
    <<"C","h","e","c","k","i","n","g"," ","y","o","u","r"," ","b","r","o","w","s","e","r">> }

\* t occurs in s as a contiguous run.
Occurs(t, s) ==
    \E off \in 0..(Len(s) - Len(t)) :
        \A k \in 1..Len(t) : s[off + k] = t[k]

\* A plausible slip: the i flag left out.
ChallengeTestCaseSensitive(text) ==
    \E t \in ChallengeTerms : Occurs(t, RawChars(text))

ChallengeTest(text) ==
    \E t \in ChallengeTerms : Occurs(FoldAll(t), FoldAll(RawChars(text)))

-----------------------------------------------------------------------------
(* new DOMParser().parseFromString(html, 'text/html'): the lenient HTML     *)
(* tree builder.  Elements are kept flat (no nesting below head and body). *)

HeadTags == {"script", "link", "meta", "title", "base", "style"}
StructTags == {"html", "head", "/head", "body", "/body", "/html"}

RECURSIVE TreeBuild(_, _, _, _)
TreeBuild(toks, md, head, body) ==
    IF toks = <<>> THEN [hasHead |-> TRUE, head |-> head, body |-> body]
    ELSE LET t == Head(toks)
             rest == Tail(toks)
         IN  IF md \in {"inhead", "afterhead"}
             THEN CASE t.tag \in HeadTags -> TreeBuild(rest, md, Append(head, t), body)
                    [] t.tag = "/head" -> TreeBuild(rest, "afterhead", head, body)
                    [] t.tag = "body" -> TreeBuild(rest, "inbody", head, body)
                    [] t.tag \in StructTags -> TreeBuild(rest, md, head, body)
                    [] t.tag = "#text" /\ t.ch = " " -> TreeBuild(rest, md, head, body)
                    [] OTHER -> TreeBuild(rest, "inbody", head, Append(body, t))
             ELSE IF t.tag \in StructTags
                  THEN TreeBuild(rest, md, head, body)
                  ELSE TreeBuild(rest, md, head, Append(body, t))

\* A plausible slip: a strict parser that builds a head only when the markup has one.
parseStrict(html) ==
    LET d == TreeBuild(html, "inhead", <<>>, <<>>)
    IN  [d EXCEPT !.hasHead = \E i \in 1..Len(html) : html[i].tag \in HeadTags \cup {"head"}]

parseFromString(html) == TreeBuild(html, "inhead", <<>>, <<>>)

\* doc.documentElement.outerHTML
outerHTML(doc) ==
    <<El("html", {}), El("head", {})>> \o doc.head \o
    <<El("/head", {}), El("body", {})>> \o doc.body \o
    <<El("/body", {}), El("/html", {})>>

\* parent.prepend(node)
prepend(children, node) == <<node>> \o children
\* parent.appendChild(node)
appendChild(children, node) == Append(children, node)


-----------------------------------------------------------------------------
(* A1EngineV2: configuration and the document transformer *)

ProxyUrl(i) ==
    CASE i = 1 -> "https://api.allorigins.win/raw?url="
      [] i = 2 -> "https://cors.sh/?url="
      [] OTHER -> "https://proxy.example.com/?url="

mobileUserAgent == "Mozilla/5.0 (iPhone; CPU iPhone OS 16_5 like Mac OS X)"
desktopUserAgent == "Mozilla/5.0 (Windows NT 10.0; Win64; x64; rv:109.0)"
permissiveCsp == "default-src * 'unsafe-inline' 'unsafe-eval' data: blob:; ..."

\* The text of the injected program, with the two constants baked in.
_getVanguardScript(target, proxyUrl) == <<"vanguard", target, proxyUrl>>

\* The sweep of step 4: which elements lose their integrity and crossorigin.
sweepSelector(el) ==
    el.tag = "script" /\ el.attrs \cap {"integrity", "crossorigin"} # {}

removeAttributes(children) ==
    [i \in 1..Len(children) |->
        IF sweepSelector(children[i])
        THEN [children[i] EXCEPT !.attrs = @ \ {"integrity", "crossorigin"}]
        ELSE children[i]]

\* Steps 1-3 with the three prepends in the order base, script, meta.
injectHeadPayloadSecond(head, target, proxyUrl) ==
    LET base == ElV("base", {"href"}, <<target>>)
        cspMeta == ElV("meta", {"http-equiv", "content"},
                       <<"Content-Security-Policy", permissiveCsp>>)
        vanguardScript == ElV("script", {}, _getVanguardScript(target, proxyUrl))
    IN  prepend(prepend(prepend(head, base), vanguardScript), cspMeta)

\* Steps 1-3: base, then the CSP meta, then the script, each prepended to head.
injectHead(head, target, proxyUrl) ==
    LET base == ElV("base", {"href"}, <<target>>)
        cspMeta == ElV("meta", {"http-equiv", "content"},
                       <<"Content-Security-Policy", permissiveCsp>>)
        vanguardScript == ElV("script", {}, _getVanguardScript(target, proxyUrl))
    IN  prepend(prepend(prepend(head, base), cspMeta), vanguardScript)

\* _processAndInject(html, targetUrl): threw is a TypeError on doc.head.
_processAndInject(html, target) ==
    LET doc == parseFromString(html)
    IN  IF ~doc.hasHead
        THEN [threw |-> TRUE, markup |-> <<>>]
        ELSE LET head1 == injectHead(doc.head, target, ProxyUrl(1))
                 doc1 == [doc EXCEPT !.head = removeAttributes(head1),
                                     !.body = removeAttributes(doc.body)]
             IN  [threw |-> FALSE, markup |-> outerHTML(doc1)]

-----------------------------------------------------------------------------
(* A1Engine (V1): sanitizeAndInject, and the controller's renderPage *)

\* The text of the V1 injected program.
scriptContent == <<"apex">>

sanitizeAndInject(doc) ==
    [doc EXCEPT !.head = appendChild(doc.head, ElV("script", {}, scriptContent))]

\* renderPage(tab, doc): the value assigned to iframe.srcdoc.
renderPage(url, doc) ==
    outerHTML([doc EXCEPT !.head = prepend(doc.head, ElV("base", {"href"}, <<url>>))])

\* navigateTo, lines 356-357 and 378: parse, inject, render.
navigateToRender(pageHTML, url) ==
    LET doc == parseFromString(pageHTML)
    IN  IF ~doc.hasHead
        THEN [threw |-> TRUE, markup |-> <<>>]
        ELSE [threw |-> FALSE, markup |-> renderPage(url, sanitizeAndInject(doc))]

-----------------------------------------------------------------------------
(* Inputs *)

Targets == {"https://example.com/page", "https://example.org/"}

NoOut == [state |-> "none", result |-> <<>>, error |-> ""]

\* Tokens the raw text handed to the transformer is made of.
InputTokens == {
    El("head", {}), El("/head", {}), El("body", {}),
    ElV("script", {"src"}, <<"page">>),
    ElV("script", {"src", "integrity", "crossorigin"}, <<"page">>),
    El("link", {"href", "integrity", "crossorigin"}),
    El("img", {"src", "crossorigin"}),
    El("p", {}),
    Ch("x") }

InputDocs == UNION {[1..k -> InputTokens] : k \in 0..MaxLen}


-----------------------------------------------------------------------------
(* The relay race: fetchWithProxy, Promise.any and the code after the await *)

fetchTimeout(e) == IF e = "V1" THEN 10000 ELSE 15000

\* The clock advances in steps of half the shorter timeout, up to MaxTime.
TimeStep == fetchTimeout("V1") \div 2
MaxTime == fetchTimeout("V2") + TimeStep

AllProxiesFailed ==
    "All proxies failed to fetch the content. The site may be down or blocking access."

\* encodeURIComponent, on the addresses the model hands to it.
encodeURIComponent(u) ==
    CASE u = "https://example.com/page" -> "https%3A%2F%2Fexample.com%2Fpage"
      [] u = "https://example.org/" -> "https%3A%2F%2Fexample.org%2F"
      [] u = "https://example.com/api" -> "https%3A%2F%2Fexample.com%2Fapi"
      [] u = "https://example.org/api" -> "https%3A%2F%2Fexample.org%2Fapi"
      [] u = "https://other.example/x?k=v" -> "https%3A%2F%2Fother.example%2Fx%3Fk%3Dv"
      [] OTHER -> u

\* A plausible slip: the target appended as it is, the mobile identity always.
RequestRaw(proxyUrl, target, md) ==
    [url |-> <<proxyUrl, target>>,
     userAgent |-> mobileUserAgent,
     requestedWith |-> "XMLHttpRequest",
     referrerPolicy |-> "no-referrer"]

\* The request fetchWithProxy hands to fetch().
Request(proxyUrl, target, md) ==
    [url |-> <<proxyUrl, encodeURIComponent(target)>>,
     userAgent |-> IF md = "desktop" THEN desktopUserAgent ELSE mobileUserAgent,
     requestedWith |-> "XMLHttpRequest",
     referrerPolicy |-> "no-referrer"]

Attempts == 1..Len(proxies)

\* A plausible slip: every relay asked twice.
startAttemptsTwice(ps, target, md) ==
    [i \in 1..(2 * Len(ps)) |-> Request(ps[((i - 1) % Len(ps)) + 1], target, md)]

\* this.proxies.map(p => fetchWithProxy(p)): the requests sent, one fetch()
\* per configured relay, in the order of the list.
startAttempts(ps, target, md) ==
    [i \in 1..Len(ps) |-> Request(ps[i], target, md)]

\* A plausible slip: Promise.race, which settles with the first attempt to settle.
PromiseRace(ps) ==
    IF \E i \in DOMAIN ps : ps[i] = "rejected" THEN "rejected"
    ELSE IF \E i \in DOMAIN ps : ps[i] = "fulfilled" THEN "fulfilled"
    ELSE "pending"

\* A plausible slip: Promise.all, which rejects with the first rejection and
\* fulfils when every attempt has.
PromiseAll(ps) ==
    IF \E i \in DOMAIN ps : ps[i] = "rejected" THEN "rejected"
    ELSE IF \A i \in DOMAIN ps : ps[i] = "fulfilled" THEN "fulfilled"
    ELSE "pending"

\* Promise.any over the attempts' promises: fulfilled as soon as one is,
\* rejected when all are.
PromiseAny(ps) ==
    IF \E i \in DOMAIN ps : ps[i] = "fulfilled" THEN "fulfilled"
    ELSE IF \A i \in DOMAIN ps : ps[i] = "rejected" THEN "rejected"
    ELSE "pending"

\* A plausible slip: a result slot every success writes.
resolveEvery(pending, cur, v) == v

\* A promise's resolve function acts once: the value of the first call stays.
resolveOnce(pending, cur, v) == IF pending THEN v ELSE cur

\* A plausible slip: the transformer skipped for the desktop mode.
resumeFulfilledByMode(e, rawHtml, target) ==
    IF e = "V1" \/ mode = "desktop"
    THEN [state |-> "resolved", result |-> rawHtml, error |-> ""]
    ELSE [state |-> "resolved", result |-> _processAndInject(rawHtml, target).markup,
          error |-> ""]

\* The code after "await Promise.any(...)" when the race fulfilled with rawHtml:
\* fetchPage returns it; fetchAndProcessPage returns _processAndInject of it,
\* inside the try whose catch throws the all-proxies-failed error.
resumeFulfilled(e, rawHtml, target) ==
    IF e = "V1"
    THEN [state |-> "resolved", result |-> rawHtml, error |-> ""]
    ELSE LET r == _processAndInject(rawHtml, target)
         IN  IF r.threw
             THEN [state |-> "failed", result |-> <<>>, error |-> AllProxiesFailed]
             ELSE [state |-> "resolved", result |-> r.markup, error |-> ""]

\* The catch block, reached when Promise.any rejected.
resumeRejected == [state |-> "failed", result |-> <<>>, error |-> AllProxiesFailed]

\* A plausible slip: the continuation run at every settlement that finds the
\* race's promise settled.
awaitResumesAgain(st, out) == out # "pending"

\* "await Promise.any(...)" resumes the operation once: at the settlement
\* that settles the race's promise, which finds the operation racing.
awaitResumes(st, out) == st = "racing" /\ out # "pending"

\* The states a navigation enters when the race settles: with a text it is
\* Retrieved, then Transforming (_processAndInject; in V1 the controller's
\* parse, sanitizeAndInject and renderPage), then Rendered, or Failed if the
\* transformer threw; without one it is Failed.
navigationSteps(e, out, raw, target) ==
    IF out = "fulfilled" /\ raw # <<>>
    THEN <<"Retrieved", "Transforming",
           IF (IF e = "V2" THEN _processAndInject(raw[1], target).threw
               ELSE navigateToRender(raw[1], target).threw)
           THEN "Failed" ELSE "Rendered">>
    ELSE <<"Failed">>

\* resolve(text) or reject(error) of attempt i, with the reactions that run in
\* the same microtask checkpoint: Promise.any's, then the awaiting function's.
Settle(i, st, why, text) ==
    LET fresh == promise[i] = "pending"
        ps == IF fresh THEN [promise EXCEPT ![i] = st] ELSE promise
        won == fresh /\ st = "fulfilled"
        raw == IF won THEN resolveOnce(opState = "racing", opRaw, <<text>>) ELSE opRaw
        out == PromiseAny(ps)
        res == IF out = "fulfilled" /\ raw # <<>>
               THEN resumeFulfilled(engine, raw[1], targetUrl)
               ELSE resumeRejected
    IN  /\ promise' = ps
        /\ reason' = IF fresh /\ st = "rejected" THEN [reason EXCEPT ![i] = why] ELSE reason
        /\ value' = IF won THEN [value EXCEPT ![i] = <<text>>] ELSE value
        /\ order' = IF won THEN Append(order, i) ELSE order
        /\ opRaw' = raw
        /\ IF awaitResumes(opState, out)
           THEN /\ opState' = res.state
                /\ opResult' = res.result
                /\ opError' = res.error
                /\ navPath' = navPath \o navigationSteps(engine, out, raw, targetUrl)
           ELSE UNCHANGED <<opState, opResult, opError, navPath>>

\* Raw texts a relay may answer with.
BodyPlain ==
    <<El("head", {}), ElV("script", {"src", "integrity"}, <<"page">>), El("body", {})>>
        \o Txt(<<"o", "k">>)
BodyMalformed == <<El("p", {}), Ch("x"), El("link", {"href", "integrity"})>>
BodyNearMiss == Txt(<<"C","l","o","u","d","f","l","a","r">>) \o <<El("p", {}), Ch("e")>>
BodyCloudflare == <<El("body", {})>> \o Txt(<<"C","L","O","U","D","F","L","A","R","E","!">>)
BodyHCaptcha == Txt(<<"x","h","c","a","p","t","c","h","a">>)
BodyChecking ==
    Txt(<<"C","h","e","c","k","i","n","g"," ","y","o","u","r"," ","b","r","o","w","s","e","r">>)

CleanBodies == {BodyPlain, BodyMalformed, BodyNearMiss}
ChallengeBodies == {BodyCloudflare, BodyHCaptcha, BodyChecking}
Bodies == CleanBodies \cup ChallengeBodies

FetchFrame == UNCHANGED <<xformVars, payloadVars, restVars>>

FetchInit ==
    /\ engine \in {"V1", "V2"}
    /\ \E n \in 1..MaxRelays : proxies = [i \in 1..n |-> ProxyUrl(i)]
    /\ targetUrl \in Targets
    /\ mode \in {"interactive", "desktop"}
    /\ opState = "idle"
    /\ opRaw = <<>>
    /\ opResult = <<>>
    /\ opError = ""
    /\ phase = [i \in Attempts |-> "none"]
    /\ promise = [i \in Attempts |-> "none"]
    /\ reason = [i \in Attempts |-> ""]
    /\ value = [i \in Attempts |-> <<>>]
    /\ recvText = [i \in Attempts |-> <<>>]
    /\ timer = [i \in Attempts |-> "none"]
    /\ deadline = [i \in Attempts |-> 0]
    /\ aborted = [i \in Attempts |-> FALSE]
    /\ requests = <<>>
    /\ order = <<>>
    /\ now = 0
    /\ navPath = <<"Idle">>

\* fetchPage / fetchAndProcessPage is called: this.proxies.map(fetchWithProxy)
\* starts every attempt, each with its controller, its timer and its request.
Start ==
    /\ opState = "idle"
    /\ opState' = "racing"
    /\ navPath' = Append(navPath, "Racing")
    /\ phase' = [i \in Attempts |-> "fetching"]
    /\ promise' = [i \in Attempts |-> "pending"]
    /\ timer' = [i \in Attempts |-> "armed"]
    /\ deadline' = [i \in Attempts |-> now + fetchTimeout(engine)]
    /\ requests' = startAttempts(proxies, targetUrl, mode)
    /\ UNCHANGED <<engine, proxies, targetUrl, mode, opRaw, opResult, opError,
                   reason, value, recvText, aborted, order, now>>
    /\ FetchFrame

\* fetch() fulfils with a response: clearTimeout, then the status check.
Response(i, ok) ==
    /\ phase[i] = "fetching"
    /\ timer' = [timer EXCEPT ![i] = IF @ = "armed" THEN "cleared" ELSE @]
    /\ IF ok
       THEN /\ phase' = [phase EXCEPT ![i] = "reading"]
            /\ UNCHANGED <<promise, reason, value, order, opRaw, opState, opResult, opError,
                           navPath>>
       ELSE /\ phase' = [phase EXCEPT ![i] = "done"]
            /\ Settle(i, "rejected", "status", <<>>)
    /\ UNCHANGED <<engine, proxies, targetUrl, mode, recvText, deadline, aborted,
                   requests, now>>
    /\ FetchFrame

\* response.text() fulfils: the challenge test, then resolve(text).
Text(i, body) ==
    /\ phase[i] = "reading"
    /\ phase' = [phase EXCEPT ![i] = "done"]
    /\ recvText' = [recvText EXCEPT ![i] = <<body>>]
    /\ IF ChallengeTest(body)
       THEN Settle(i, "rejected", "challenge", <<>>)
       ELSE Settle(i, "fulfilled", "", body)
    /\ UNCHANGED <<engine, proxies, targetUrl, mode, timer, deadline, aborted,
                   requests, now>>
    /\ FetchFrame

\* fetch() or response.text() rejects with a transport error: the catch block.
TransportError(i) ==
    /\ phase[i] \in {"fetching", "reading"}
    /\ phase' = [phase EXCEPT ![i] = "done"]
    /\ timer' = [timer EXCEPT ![i] = IF @ = "armed" THEN "cleared" ELSE @]
    /\ Settle(i, "rejected", "transport", <<>>)
    /\ UNCHANGED <<engine, proxies, targetUrl, mode, recvText, deadline, aborted,
                   requests, now>>
    /\ FetchFrame

\* The timer's callback: controller.abort(), reject(timeout).  The abort cancels
\* the underlying operation, whose rejection then reaches the catch block, where
\* reject(error) finds the promise settled.
Timeout(i) ==
    /\ timer[i] = "armed"
    /\ now >= deadline[i]
    /\ timer' = [timer EXCEPT ![i] = "fired"]
    /\ aborted' = [aborted EXCEPT ![i] = TRUE]
    /\ phase' = [phase EXCEPT ![i] = IF @ \in {"fetching", "reading"} THEN "cancelled" ELSE @]
    /\ Settle(i, "rejected", "timeout", <<>>)
    /\ UNCHANGED <<engine, proxies, targetUrl, mode, recvText, deadline, requests, now>>
    /\ FetchFrame

\* Time passes; a timer that is due runs before the clock moves on.
Tick ==
    /\ opState # "idle"
    /\ \E i \in Attempts : phase[i] \in {"fetching", "reading"}
    /\ \A i \in Attempts : timer[i] = "armed" => now < deadline[i]
    /\ now + TimeStep <= MaxTime
    /\ now' = now + TimeStep
    /\ UNCHANGED <<engine, proxies, targetUrl, mode, opState, opRaw, opResult, opError,
                   phase, promise, reason, value, recvText, timer, deadline, aborted,
                   requests, order, navPath>>
    /\ FetchFrame

FetchNext ==
    \/ Start
    \/ \E i \in Attempts, ok \in BOOLEAN : Response(i, ok)
    \/ \E i \in Attempts, body \in Bodies : Text(i, body)
    \/ \E i \in Attempts : TransportError(i)
    \/ \E i \in Attempts : Timeout(i)
    \/ Tick


-----------------------------------------------------------------------------
(* The transformer applied to one raw text *)

TransformFrame == UNCHANGED <<fetchVars, payloadVars, restVars>>

\* fetchAndProcessPage from the point its race fulfilled with tHtml.
TransformV2 ==
    /\ tPc = "input"
    /\ tPc' = "v2"
    /\ tOut' = resumeFulfilled("V2", tHtml, tTarget)
    /\ UNCHANGED <<tHtml, tTarget>>
    /\ TransformFrame

\* navigateTo from the point fetchPage fulfilled with tHtml.
TransformV1 ==
    /\ tPc = "input"
    /\ tPc' = "v1"
    /\ tOut' = LET r == navigateToRender(tHtml, tTarget)
               IN  IF r.threw
                   THEN [state |-> "failed", result |-> <<>>, error |-> "TypeError"]
                   ELSE [state |-> "resolved", result |-> r.markup, error |-> ""]
    /\ UNCHANGED <<tHtml, tTarget>>
    /\ TransformFrame

TransformNext == TransformV2 \/ TransformV1

-----------------------------------------------------------------------------
(* The injected program (_getVanguardScript): the self-invoking function,   *)
(* then the callbacks it registered.  Responsibilities: 1 containment-      *)
(* escape defense, 2 request interposition, 3 navigation interposition,    *)
(* 4 overlay removal.                                                      *)

PayloadFrame == UNCHANGED <<fetchVars, xformVars, restVars>>

\* The delays of the three cleanDom timers.
cleanDomDelays == {50, 500, 2000}

Min(S) == CHOOSE x \in S : \A y \in S : x <= y

\* What window.top and window.parent denote in the surface once block 1 has
\* been left (ran) or before it: the surface itself in a top-level surface;
\* in an embedded one the outer window, unless defineProperty returned and
\* the assignment to window.parent after it ran.  When defineProperty throws,
\* control goes to the catch and the assignment is skipped.
windowAfterContainment(env, ran) ==
    IF ~env.embedded \/ (ran /\ ~env.topThrows)
    THEN [top |-> "self", parent |-> "self"]
    ELSE [top |-> "outer", parent |-> "outer"]

\* Block 1, inside try/catch: an exception of defineProperty is caught and logged.
Containment ==
    /\ pPc = "s1"
    /\ pPc' = "s2"
    /\ pInstalled' = IF pEnv.embedded /\ windowAfterContainment(pEnv, TRUE).top = "self"
                     THEN pInstalled \cup {1} ELSE pInstalled
    /\ UNCHANGED <<pEnv, pRan, pEscaped, pTimers, pLoaded, pPasses>>
    /\ PayloadFrame

\* Block 2, not inside any try: reading window.XMLHttpRequest.prototype throws
\* when the surface has no XMLHttpRequest, and the exception leaves the function.
Interpose ==
    /\ pPc = "s2"
    /\ IF pEnv.hasXhr
       THEN /\ pPc' = "s3"
            /\ pInstalled' = pInstalled \cup {2}
            /\ UNCHANGED pEscaped
       ELSE /\ pPc' = "thrown"
            /\ pEscaped' = TRUE
            /\ UNCHANGED pInstalled
    /\ UNCHANGED <<pEnv, pRan, pTimers, pLoaded, pPasses>>
    /\ PayloadFrame

\* Block 3: the click and submit listeners are added.
InstallNavigation ==
    /\ pPc = "s3"
    /\ pPc' = "s4"
    /\ pInstalled' = pInstalled \cup {3}
    /\ UNCHANGED <<pEnv, pRan, pEscaped, pTimers, pLoaded, pPasses>>
    /\ PayloadFrame

\* Block 4: the DOMContentLoaded listener is added.
InstallCleanup ==
    /\ pPc = "s4"
    /\ pPc' = "done"
    /\ pInstalled' = pInstalled \cup {4}
    /\ UNCHANGED <<pEnv, pRan, pEscaped, pTimers, pLoaded, pPasses>>
    /\ PayloadFrame

\* A plausible slip: the listener calling cleanDom() itself before it arms the
\* timers.
listenerPassesOne == <<0>>

\* The passes the DOMContentLoaded listener runs itself (as delay 0): none,
\* its body is the three setTimeout calls.
listenerPasses == <<>>

\* DOMContentLoaded: the listener arms the three timers.
ContentLoaded ==
    /\ pPc \in {"done", "thrown"}
    /\ ~pLoaded
    /\ pLoaded' = TRUE
    /\ pTimers' = IF 4 \in pInstalled THEN cleanDomDelays ELSE pTimers
    /\ pPasses' = IF 4 \in pInstalled THEN pPasses \o listenerPasses ELSE pPasses
    /\ UNCHANGED <<pEnv, pPc, pInstalled, pRan, pEscaped>>
    /\ PayloadFrame

\* A cleanDom timer fires: the pass ends with document.body.style, a TypeError
\* when the document has no body; nothing catches it.
CleanDomPass ==
    /\ pTimers # {}
    /\ pTimers' = pTimers \ {Min(pTimers)}
    /\ pPasses' = Append(pPasses, Min(pTimers))
    /\ IF pEnv.hasBody
       THEN /\ pRan' = pRan \cup {4}
            /\ UNCHANGED pEscaped
       ELSE /\ pEscaped' = TRUE
            /\ UNCHANGED pRan
    /\ UNCHANGED <<pEnv, pPc, pInstalled, pLoaded>>
    /\ PayloadFrame

\* A click reaches the capturing listener; interceptAndPost has its own try/catch.
Click ==
    /\ 3 \in pInstalled
    /\ 3 \notin pRan
    /\ pRan' = pRan \cup {3}
    /\ UNCHANGED <<pEnv, pPc, pInstalled, pEscaped, pTimers, pLoaded, pPasses>>
    /\ PayloadFrame

\* A submit reaches the capturing listener: form.method.toLowerCase() is outside
\* any try, and throws when a control named "method" shadows the property.
Submit ==
    /\ 3 \in pInstalled
    /\ ~pEscaped
    /\ pEnv.methodShadowed
    /\ pEscaped' = TRUE
    /\ UNCHANGED <<pEnv, pPc, pInstalled, pRan, pTimers, pLoaded, pPasses>>
    /\ PayloadFrame

PayloadNext ==
    \/ Containment
    \/ Interpose
    \/ InstallNavigation
    \/ InstallCleanup
    \/ ContentLoaded
    \/ CleanDomPass
    \/ Click
    \/ Submit

-----------------------------------------------------------------------------
(* The payload's listeners and interposers in one rendered surface, each    *)
(* run on one event or one call.  The handlers keep no state between runs.  *)

\* An address as a page writes it: kind "abs" (absolute), "path" (reference
\* starting with /), "frag" (#...), "js" (javascript:...), "none" (absent or
\* empty); query is the sequence of its name=value pairs.
Addr(kind, text, query) == [kind |-> kind, text |-> text, query |-> query]
NoAddr == Addr("none", "", <<>>)

\* The address of a srcdoc document (window.location.href, document.URL).
SrcdocUrl == "about:srcdoc"

\* URL.origin of the addresses the model uses as base.
originOf(base) ==
    CASE base = "https://example.com/page" -> "https://example.com"
      [] base = "https://example.org/" -> "https://example.org"
      [] OTHER -> base

\* URLSearchParams.prototype.toString
RECURSIVE paramsToString(_)
paramsToString(q) ==
    IF q = <<>> THEN ""
    ELSE IF Len(q) = 1 THEN q[1]
    ELSE q[1] \o "&" \o paramsToString(Tail(q))

\* URL.search
search(q) == IF q = <<>> THEN "" ELSE "?" \o paramsToString(q)

\* new URL(url, base).href
UrlHref(url, base) ==
    CASE url.kind = "path" -> originOf(base) \o url.text \o search(url.query)
      [] url.kind = "frag" -> base \o url.text
      [] url.kind = "none" -> base
      [] OTHER -> url.text \o search(url.query)

\* resolveUrl of the V2 payload; new URL(url, window.location.href).href of V1.
resolveUrl(e, url, target) == UrlHref(url, IF e = "V2" THEN target ELSE SrcdocUrl)

\* The document base URL of a rendered surface: the <base> element that
\* _processAndInject (V2) and renderPage (V1) put before the page's own.
documentBase(target) == target

\* anchor.getAttribute('href'): the address as written.
anchorAttribute(a, docBase) == a.href.text

\* anchor.href: the attribute resolved against the document base URL, "" when
\* the attribute is absent.
anchorHref(a, docBase) == IF a.href.kind = "none" THEN "" ELSE UrlHref(a.href, docBase)

\* ASCII lower-casing, on the target names the model uses.
lowerAscii(t) == IF t = "_BLANK" THEN "_blank" ELSE t

\* What one run of a handler caused.
NoEffect ==
    [prevented |-> FALSE, stopped |-> FALSE, posted |-> <<>>, calls |-> <<>>,
     threw |-> FALSE]

\* interceptAndPost: one message to window.parent; its try/catch keeps every
\* exception inside.
interceptAndPost(e, url, target, parent) ==
    <<[type |-> "aperture-navigate",
       url |-> resolveUrl(e, Addr("abs", url, <<>>), target),
       to |-> parent]>>

\* The capturing click listener on document.
onClick(e, a, target, parent) ==
    LET href == anchorHref(a, documentBase(target))
        intercept ==
            /\ a.isAnchor
            /\ href # ""
            /\ a.target # "_blank"
            /\ a.href.kind # "js"
            /\ (e = "V2" => ~a.download)
    IN  IF intercept
        THEN [NoEffect EXCEPT !.prevented = TRUE, !.stopped = TRUE,
                              !.posted = interceptAndPost(e, href, target, parent)]
        ELSE NoEffect

\* form.action: the attribute resolved against the document base URL; the
\* document's own address when the attribute is absent or empty.
formAction(f, docBase) ==
    IF f.action.kind = "none"
    THEN Addr("abs", SrcdocUrl, <<>>)
    ELSE Addr("abs", UrlHref([f.action EXCEPT !.query = <<>>], docBase), f.action.query)

\* The capturing submit listener on document (V2; the V1 payload has none).
\* A control named "action" or "method" shadows the form's property of that
\* name: new URL(control) and control.toLowerCase() throw.
onSubmit(e, f, target, parent) ==
    LET stop == [NoEffect EXCEPT !.prevented = TRUE, !.stopped = TRUE]
        actionUrl == formAction(f, documentBase(target))
        submitUrl == [actionUrl EXCEPT !.query = f.fields]
    IN  IF e # "V2" THEN NoEffect
        ELSE IF f.shadow # {} THEN [stop EXCEPT !.threw = TRUE]
        ELSE [stop EXCEPT !.posted =
                 interceptAndPost(e, UrlHref(submitUrl, target), target, parent)]

\* What the original fetch does with an absent init member: its default.
initOf(options) ==
    IF options.given THEN [method |-> options.method, headers |-> {}, body |-> ""]
    ELSE [method |-> "GET", headers |-> {}, body |-> ""]

\* A plausible slip: the address handed on unencoded.
fetchInterposerUnencoded(r, options, target, proxyUrl) ==
    <<[prim |-> "fetch", url |-> proxyUrl \o UrlHref(r.url, target),
       init |-> IF r.isRequest
                THEN [initOf(options) EXCEPT !.headers = r.headers, !.body = r.body]
                ELSE initOf(options)]>>

\* window.fetch as the payload redefines it: the calls it makes of
\* originalFetch.  A request object's url is absolute already (resolved
\* against the document base URL when the object was built).
fetchInterposer(r, options, target, proxyUrl) ==
    LET requestUrl == IF r.isRequest
                      THEN Addr("abs", UrlHref(r.url, documentBase(target)), <<>>)
                      ELSE r.url
        absoluteUrl == resolveUrl("V2", requestUrl, target)
        proxiedUrl == proxyUrl \o encodeURIComponent(absoluteUrl)
    IN  <<[prim |-> "fetch", url |-> proxiedUrl,
           init |-> IF r.isRequest
                    THEN [initOf(options) EXCEPT !.headers = r.headers, !.body = r.body]
                    ELSE initOf(options)]>>

\* XMLHttpRequest.prototype.open as the payload redefines it: the calls it
\* makes of originalXhrOpen.
xhrOpenInterposer(method, url, async, target, proxyUrl) ==
    LET absoluteUrl == resolveUrl("V2", url, target)
        proxiedUrl == proxyUrl \o encodeURIComponent(absoluteUrl)
    IN  <<[prim |-> "open", url |-> proxiedUrl,
           init |-> [method |-> method, async |-> async]]>>

\* Links, forms and requests of a page.
Anchors ==
    [isAnchor : {TRUE},
     href : {Addr("path", "/about", <<>>), Addr("abs", "https://other.example/x", <<>>),
             Addr("frag", "#top", <<>>), Addr("js", "javascript:void(0)", <<>>), NoAddr},
     target : {"", "_self", "_blank", "_BLANK"},
     download : BOOLEAN]
        \cup {[isAnchor |-> FALSE, href |-> NoAddr, target |-> "", download |-> FALSE]}

Forms ==
    [action : {NoAddr, Addr("path", "/search", <<>>),
               Addr("abs", "https://other.example/find", <<"lang=en">>)},
     method : {"get", "post"},
     fields : {<<>>, <<"q=1">>, <<"q=1", "p=2">>},
     shadow : {{}, {"method"}, {"action"}}]

Resources ==
    [isRequest : BOOLEAN,
     url : {Addr("path", "/api", <<>>), Addr("abs", "https://other.example/x", <<"k=v">>)},
     method : {"GET", "POST"},
     headers : {{}, {"x-token"}},
     body : {"", "payload"}]

FetchOptions == {[given |-> FALSE, method |-> ""], [given |-> TRUE, method |-> "POST"]}

SurfaceFrame == UNCHANGED <<fetchVars, xformVars, payloadVars, cleanupVars, ctlVars>>

Handled(kind, input, effect) ==
    /\ sEvent' = [kind |-> kind, input |-> input, effect |-> effect]
    /\ UNCHANGED <<sEngine, sTarget, sParent>>
    /\ SurfaceFrame

\* A click reaches the document.
ClickLink(a) == Handled("click", a, onClick(sEngine, a, sTarget, sParent))

\* A form is submitted.
SubmitForm(f) == Handled("submit", f, onSubmit(sEngine, f, sTarget, sParent))

\* The page calls window.fetch.
FetchCall(r, options) ==
    /\ sEngine = "V2"
    /\ Handled("fetch", [resource |-> r, options |-> options],
               [NoEffect EXCEPT !.calls = fetchInterposer(r, options, sTarget, ProxyUrl(1))])

\* The page calls open on an XMLHttpRequest.
XhrOpen(method, url, async) ==
    /\ sEngine = "V2"
    /\ Handled("open", [method |-> method, url |-> url, async |-> async],
               [NoEffect EXCEPT !.calls =
                   xhrOpenInterposer(method, url, async, sTarget, ProxyUrl(1))])

SurfaceNext ==
    \/ \E a \in Anchors : ClickLink(a)
    \/ \E f \in Forms : SubmitForm(f)
    \/ \E r \in Resources, o \in FetchOptions : FetchCall(r, o)
    \/ \E r \in Resources, async \in BOOLEAN : XhrOpen(r.method, r.url, async)

-----------------------------------------------------------------------------
(* cleanDom: one pass over the document of a rendered surface.  An element  *)
(* is a record [name, tag, id, class, aria, role, position, tall, wide,      *)
(* grows]: id and aria are character sequences, class is the set of its     *)
(* class names, tall is rect.height > 40 and wide is rect.width >            *)
(* innerWidth / 2 as the page laid the element out, grows says that its      *)
(* height exceeds 40 once it is positioned absolute (a percentage height    *)
(* then resolves against its positioned ancestor, not the viewport).        *)
(* The elements are children of body without element children of their own. *)

\* The words of the [id*=...] selectors.
idTerms ==
    {<<"c", "o", "o", "k", "i", "e">>,
     <<"c", "o", "n", "s", "e", "n", "t">>,
     <<"b", "a", "n", "n", "e", "r">>,
     <<"m", "o", "d", "a", "l">>,
     <<"p", "o", "p", "u", "p">>,
     <<"n", "e", "w", "s", "l", "e", "t", "t", "e", "r">>}
\* The words of the [class*=...] selectors.
classTerms == idTerms \cup {<<"a", "s", "i", "d", "e">>}
\* The word of the [aria-label*=...] selector.
ariaTerms == {<<"c", "o", "o", "k", "i", "e">>}
\* #onetrust-consent-sdk
oneTrustId == <<"o", "n", "e", "t", "r", "u", "s", "t", "-", "c", "o", "n", "s", "e", "n", "t", "-", "s", "d", "k">>
\* .fc-consent-root and .cc-window
overlayClasses ==
    {<<"f", "c", "-", "c", "o", "n", "s", "e", "n", "t", "-", "r", "o", "o", "t">>,
     <<"c", "c", "-", "w", "i", "n", "d", "o", "w">>}

\* el is among document.querySelectorAll(selectorsToRemove.join(', ')).
matchesSelectors(e, el) ==
    \/ \E t \in idTerms : Occurs(t, el.id)
    \/ \E t \in classTerms, c \in el.class : Occurs(t, c)
    \/ \E t \in ariaTerms : Occurs(t, el.aria)
    \/ el.id = oneTrustId
    \/ el.class \cap overlayClasses # {}
    \/ el.tag = "aside"
    \/ (e = "V2" /\ el.tag = "div" /\ el.role = "dialog")

\* rect.height > 40 for el.getBoundingClientRect() under el's present position.
rectTall(el) == el.tall \/ (el.grows /\ el.position = "absolute")

\* The test that decides el.remove() for a matched element.
removes(e, el) ==
    IF e = "V2"
    THEN el.position \in {"fixed", "sticky"}
    ELSE (rectTall(el) \/ el.wide) /\ el.position # "static"

\* The elements cleanDom leaves in the document.  V1 then makes every
\* remaining fixed or sticky element absolute.
cleanDom(e, doc) ==
    LET kept == {el \in doc : ~(matchesSelectors(e, el) /\ removes(e, el))}
    IN  IF e = "V2" THEN kept
        ELSE {IF el.position \in {"fixed", "sticky"}
              THEN [el EXCEPT !.position = "absolute"] ELSE el : el \in kept}

\* style.overflow after the pass assigned to it: the style setter ignores a
\* value that carries a priority, so V2's 'auto !important' changes nothing.
overflowAfter(e, overflow) == IF e = "V2" THEN overflow ELSE "auto"

Element(name, tag, id, class, role, position, tall, wide) ==
    [name |-> name, tag |-> tag, id |-> id, class |-> class, aria |-> <<>>,
     role |-> role, position |-> position, tall |-> tall, wide |-> wide,
     grows |-> FALSE]

\* Elements a page may hold.
ElementPool ==
    {Element("banner", "div", <<"c", "o", "o", "k", "i", "e", "-", "b", "a", "n", "n", "e", "r">>, {}, "", "fixed", TRUE, TRUE),
     Element("note", "p", <<>>, {<<"c", "o", "o", "k", "i", "e", "-", "n", "o", "t", "e">>}, "", "static", TRUE, FALSE),
     Element("promo", "div", <<>>, {<<"p", "r", "o", "m", "o", "-", "b", "a", "n", "n", "e", "r">>}, "", "relative", TRUE, FALSE),
     Element("chip", "div", <<"c", "o", "n", "s", "e", "n", "t", "-", "c", "h", "i", "p">>, {}, "", "fixed", FALSE, FALSE),
     Element("topbar", "div", <<"t", "o", "p", "b", "a", "r">>, {}, "", "sticky", TRUE, TRUE),
     Element("dialog", "div", <<>>, {}, "dialog", "fixed", TRUE, FALSE),
     [Element("ribbon", "div", <<"p", "o", "p", "u", "p", "-", "r", "i", "b", "b", "o", "n">>, {}, "", "fixed", FALSE, FALSE)
        EXCEPT !.grows = TRUE]}

CleanupFrame == UNCHANGED <<fetchVars, xformVars, payloadVars, surfaceVars, ctlVars>>

\* A timer of the DOMContentLoaded listener fires: cleanDom runs.
CleanDomRun ==
    /\ cPasses < Cardinality(cleanDomDelays)
    /\ cBefore' = cDoc
    /\ cDoc' = cleanDom(cEngine, cDoc)
    /\ cOverflow' = [html |-> overflowAfter(cEngine, cOverflow.html),
                     body |-> overflowAfter(cEngine, cOverflow.body)]
    /\ cPasses' = cPasses + 1
    /\ cPc' = "swept"
    /\ UNCHANGED cEngine
    /\ CleanupFrame

\* A script of the page inserts an element between two passes.
PageInserts(el) ==
    /\ \A x \in cDoc : x.name # el.name
    /\ cDoc' = cDoc \cup {el}
    /\ cPc' = "page"
    /\ UNCHANGED <<cEngine, cBefore, cOverflow, cPasses>>
    /\ CleanupFrame

CleanupNext ==
    \/ CleanDomRun
    \/ \E el \in ElementPool : PageInserts(el)

-----------------------------------------------------------------------------
(* The controller (the page's module script): tabs, their page containers,  *)
(* and navigateTo, whose part after "await engine.fetchPage" runs when the  *)
(* retrieval has resolved or failed.  url, error: "" stands for null;       *)
(* activeTabId: 0 stands for null.                                          *)

\* new URL(url).toString(), on the addresses the controller is given.
urlToString(url) == IF url = "https://example.org" THEN "https://example.org/" ELSE url

\* cleanUrl.split('/')[2]
hostOf(url) ==
    CASE url = "https://example.com/page" -> "example.com"
      [] url = "https://example.org/" -> "example.org"
      [] OTHER -> "Untitled"

\* The tab object addTab creates.
newTab(ref, id) ==
    [ref |-> ref, id |-> id, url |-> "", title |-> "New Tab", mode |-> "interactive",
     history |-> <<>>, historyIndex |-> -1, error |-> "", isLoading |-> FALSE]

\* appState.tabs.findIndex(t => t.id === id), counted from 1; 0 when none.
tabIndex(ts, id) ==
    IF \E i \in DOMAIN ts : ts[i].id = id
    THEN Min({i \in DOMAIN ts : ts[i].id = id})
    ELSE 0

\* The place of the tab object ref in appState.tabs; 0 once it was closed.
refIndex(ts, ref) ==
    IF \E i \in DOMAIN ts : ts[i].ref = ref
    THEN Min({i \in DOMAIN ts : ts[i].ref = ref})
    ELSE 0

\* document.getElementById(`page-${id}`): the first container with that id.
pageIndex(ps, id) ==
    IF \E i \in DOMAIN ps : ps[i].id = id
    THEN Min({i \in DOMAIN ps : ps[i].id = id})
    ELSE 0

\* The sequence s without its element at place i.
removeAt(s, i) == [j \in 1..(Len(s) - 1) |-> IF j < i THEN s[j] ELSE s[j + 1]]

setLoadingState(ts, tabId, isLoading) ==
    LET i == tabIndex(ts, tabId)
    IN  IF i = 0 THEN ts ELSE [ts EXCEPT ![i].isLoading = isLoading]

\* switchTab
switchTab(active, tabId) == tabId

\* navigateTo up to its await: the tab is looked up, marked loading, and the
\* retrieval is started.  The record of the waiting call holds what its
\* closure holds (tab, tabId, cleanUrl, pushToHistory, mode); overtaken is
\* history, not program state: a call for the same tab made after this one
\* has already displayed its page.
navigateToStart(ts, ns, url, tabId, pushToHistory) ==
    LET i == tabIndex(ts, tabId)
        cleanUrl == urlToString(url)
    IN  IF i = 0 THEN [tabs |-> ts, navs |-> ns]
        ELSE [tabs |-> setLoadingState(ts, tabId, TRUE),
              navs |-> Append(ns,
                  [ref |-> ts[i].ref, tabId |-> tabId, url |-> cleanUrl,
                   push |-> pushToHistory,
                   mode |-> IF ts[i].url = cleanUrl THEN ts[i].mode ELSE "interactive",
                   overtaken |-> FALSE])]

\* A plausible slip: historyIndex++ outside the test that guards the push.
tabLoadedAlwaysAdvance(t, nav) ==
    LET moved == nav.push /\ (t.historyIndex < 0 \/ t.history[t.historyIndex + 1] # nav.url)
    IN  [t EXCEPT !.url = nav.url, !.title = hostOf(nav.url), !.mode = nav.mode,
                  !.error = "",
                  !.history = IF moved
                              THEN Append(SubSeq(t.history, 1, t.historyIndex + 1), nav.url)
                              ELSE @,
                  !.historyIndex = IF nav.push THEN @ + 1 ELSE @]

\* The try block after the await: the tab object takes the page's address,
\* title and mode, and its history grows when pushToHistory is set.
tabLoaded(t, nav) ==
    LET moved == nav.push /\ (t.historyIndex < 0 \/ t.history[t.historyIndex + 1] # nav.url)
    IN  [t EXCEPT !.url = nav.url, !.title = hostOf(nav.url), !.mode = nav.mode,
                  !.error = "",
                  !.history = IF moved
                              THEN Append(SubSeq(t.history, 1, t.historyIndex + 1), nav.url)
                              ELSE @,
                  !.historyIndex = IF moved THEN @ + 1 ELSE @]

\* Pages fetchPage resolves with.
PageBodies == {BodyPlain, BodyMalformed}
\* Addresses given to the controller.
NavUrls == {"https://example.com/page", "https://example.org"}

ControllerFrame == UNCHANGED <<fetchVars, xformVars, payloadVars, surfaceVars, cleanupVars>>

\* addTab(url): url "" for the add-tab button, an address from handleSearch.
AddTab(url) ==
    /\ Len(tabs) < MaxTabs
    /\ nextRef <= MaxTabs
    /\ url # "" => (navCount < MaxNavs /\ Len(navs) < MaxPending)
    /\ LET t == newTab(nextRef, clock)
           ts == Append(tabs, t)
           r == IF url = "" THEN [tabs |-> ts, navs |-> navs]
                ELSE navigateToStart(ts, navs, url, t.id, TRUE)
       IN  /\ tabs' = r.tabs
           /\ navs' = r.navs
           /\ pages' = Append(pages, [id |-> t.id, srcdoc |-> <<>>])
           /\ activeTabId' = switchTab(activeTabId, t.id)
    /\ nextRef' = nextRef + 1
    /\ navCount' = IF url = "" THEN navCount ELSE navCount + 1
    /\ UNCHANGED <<globalHistory, clock>>
    /\ ControllerFrame

\* A click on a tab of the tab bar.
SwitchTab(id) ==
    /\ tabIndex(tabs, id) # 0
    /\ activeTabId # id
    /\ activeTabId' = switchTab(activeTabId, id)
    /\ UNCHANGED <<tabs, pages, navs, globalHistory, clock, nextRef, navCount>>
    /\ ControllerFrame

\* A plausible slip: no tab made active when the active tab is closed.
activeAfterCloseNone(active, id, ts, i) == IF active # id THEN active ELSE 0

\* appState.activeTabId after closeTab removed the tab at place i, leaving ts:
\* the tab now at that place, else the one before it, else null.
activeAfterClose(active, id, ts, i) ==
    IF active # id THEN active
    ELSE IF i <= Len(ts) THEN ts[i].id
    ELSE IF i - 1 >= 1 THEN ts[i - 1].id
    ELSE 0

\* A click on a tab's close button.
CloseTab(id) ==
    /\ tabIndex(tabs, id) # 0
    /\ LET i == tabIndex(tabs, id)
           ts == removeAt(tabs, i)
       IN  /\ tabs' = ts
           /\ pages' = removeAt(pages, pageIndex(pages, id))
           /\ activeTabId' = activeAfterClose(activeTabId, id, ts, i)
    /\ UNCHANGED <<navs, globalHistory, clock, nextRef, navCount>>
    /\ ControllerFrame

\* navigateTo(url, id of the active tab, pushToHistory) from an event handler.
Navigate(url, pushToHistory, ts) ==
    /\ Len(navs) < MaxPending
    /\ pushToHistory => navCount < MaxNavs
    /\ LET r == navigateToStart(ts, navs, url, activeTabId, pushToHistory)
       IN  tabs' = r.tabs /\ navs' = r.navs
    /\ navCount' = IF pushToHistory THEN navCount + 1 ELSE navCount
    /\ UNCHANGED <<pages, activeTabId, globalHistory, clock, nextRef>>
    /\ ControllerFrame

\* handleSearch: navigateTo for the active tab, addTab(url) when there is none.
HandleSearch(url) ==
    IF tabIndex(tabs, activeTabId) # 0 THEN Navigate(url, TRUE, tabs) ELSE AddTab(url)

\* Some tab's iframe holds a rendered surface, whose payload can post.
SurfaceExists == \E p \in DOMAIN pages : pages[p].srcdoc # <<>>

\* The message listener, on an aperture-navigate message from a surface:
\* navigateTo for the active tab, nothing when there is none.
Message(url) ==
    /\ SurfaceExists
    /\ tabIndex(tabs, activeTabId) # 0
    /\ Navigate(url, TRUE, tabs)

\* The back button.
Back ==
    LET i == tabIndex(tabs, activeTabId)
    IN  /\ i # 0
        /\ tabs[i].historyIndex > 0
        /\ Navigate(tabs[i].history[tabs[i].historyIndex], FALSE,
                    [tabs EXCEPT ![i].historyIndex = @ - 1])

\* The forward button.
Forward ==
    LET i == tabIndex(tabs, activeTabId)
    IN  /\ i # 0
        /\ tabs[i].historyIndex < Len(tabs[i].history) - 1
        /\ Navigate(tabs[i].history[tabs[i].historyIndex + 2], FALSE,
                    [tabs EXCEPT ![i].historyIndex = @ + 1])

\* The reload button.
Reload ==
    LET i == tabIndex(tabs, activeTabId)
    IN  /\ i # 0
        /\ tabs[i].url # ""
        /\ Navigate(tabs[i].url, FALSE, tabs)

\* appState.globalHistory after unshift and the pop that keeps it at 200.
historyCap == 200
unshiftCapped(h, entry) ==
    LET g == <<entry>> \o h
    IN  IF Len(g) > historyCap THEN SubSeq(g, 1, Len(g) - 1) ELSE g

\* The finally block: the tab with the call's id stops loading.
navigateToFinally(ts, nav) == setLoadingState(ts, nav.tabId, FALSE)

\* fetchPage resolved with pageHTML: the try block, renderPage, finally.
NavSucceed(k, pageHTML) ==
    /\ k \in DOMAIN navs
    /\ LET nav == navs[k]
           i == refIndex(tabs, nav.ref)
           r == navigateToRender(pageHTML, nav.url)
           ts == IF i = 0 THEN tabs
                 ELSE IF r.threw THEN [tabs EXCEPT ![i].error = "TypeError"]
                 ELSE [tabs EXCEPT ![i] = tabLoaded(@, nav)]
           p == pageIndex(pages, nav.tabId)
       IN  /\ tabs' = navigateToFinally(ts, nav)
           /\ pages' = IF p = 0 \/ r.threw THEN pages
                       ELSE [pages EXCEPT ![p].srcdoc = r.markup]
           /\ globalHistory' =
                IF nav.push /\ ~r.threw
                THEN unshiftCapped(globalHistory,
                         [url |-> nav.url, title |-> hostOf(nav.url)])
                ELSE globalHistory
           /\ navs' = removeAt(
                  [j \in DOMAIN navs |->
                     IF j < k /\ navs[j].ref = nav.ref /\ i # 0 /\ ~r.threw
                     THEN [navs[j] EXCEPT !.overtaken = TRUE] ELSE navs[j]], k)
    /\ UNCHANGED <<activeTabId, clock, nextRef, navCount>>
    /\ ControllerFrame

\* fetchPage threw the all-proxies-failed error: the catch block, finally.
\* The call of renderError is commented out: the tab's iframe is not touched.
NavFail(k) ==
    /\ k \in DOMAIN navs
    /\ LET nav == navs[k]
           i == refIndex(tabs, nav.ref)
           ts == IF i = 0 THEN tabs ELSE [tabs EXCEPT ![i].error = AllProxiesFailed]
       IN  tabs' = navigateToFinally(ts, nav)
    /\ navs' = removeAt(navs, k)
    /\ UNCHANGED <<pages, activeTabId, globalHistory, clock, nextRef, navCount>>
    /\ ControllerFrame

\* Date.now() moves on.
ClockTick ==
    /\ clock < MaxTabs
    /\ clock' = clock + 1
    /\ UNCHANGED <<tabs, pages, activeTabId, navs, globalHistory, nextRef, navCount>>
    /\ ControllerFrame

ControllerNext ==
    \/ AddTab("")
    \/ \E id \in 1..MaxTabs : SwitchTab(id)
    \/ \E id \in 1..MaxTabs : CloseTab(id)
    \/ \E url \in NavUrls : HandleSearch(url)
    \/ \E url \in NavUrls : Message(url)
    \/ Back
    \/ Forward
    \/ Reload
    \/ \E k \in 1..MaxPending, pageHTML \in PageBodies : NavSucceed(k, pageHTML)
    \/ \E k \in 1..MaxPending : NavFail(k)
    \/ ClockTick

-----------------------------------------------------------------------------
(* Specifications *)

FetchIdle ==
    /\ engine = "V2"
    /\ proxies = <<>>
    /\ targetUrl = ""
    /\ mode = "interactive"
    /\ opState = "idle"
    /\ opRaw = <<>>
    /\ opResult = <<>>
    /\ opError = ""
    /\ phase = <<>>
    /\ promise = <<>>
    /\ reason = <<>>
    /\ value = <<>>
    /\ recvText = <<>>
    /\ timer = <<>>
    /\ deadline = <<>>
    /\ aborted = <<>>
    /\ requests = <<>>
    /\ order = <<>>
    /\ now = 0
    /\ navPath = <<"Idle">>

TransformIdle ==
    /\ tHtml = <<>>
    /\ tTarget = ""
    /\ tPc = "idle"
    /\ tOut = NoOut

TransformInit ==
    /\ tHtml \in InputDocs
    /\ tTarget \in Targets
    /\ tPc = "input"
    /\ tOut = NoOut

PayloadEnvs ==
    [embedded : BOOLEAN, topThrows : BOOLEAN, hasXhr : BOOLEAN,
     hasBody : BOOLEAN, methodShadowed : BOOLEAN]

PayloadIdle ==
    /\ pEnv = [embedded |-> FALSE, topThrows |-> FALSE, hasXhr |-> TRUE,
               hasBody |-> TRUE, methodShadowed |-> FALSE]
    /\ pPc = "idle"
    /\ pInstalled = {}
    /\ pRan = {}
    /\ pEscaped = FALSE
    /\ pTimers = {}
    /\ pLoaded = FALSE
    /\ pPasses = <<>>

PayloadInit ==
    /\ pEnv \in PayloadEnvs
    /\ pPc = "s1"
    /\ pInstalled = {}
    /\ pRan = {}
    /\ pEscaped = FALSE
    /\ pTimers = {}
    /\ pLoaded = FALSE
    /\ pPasses = <<>>

SurfaceIdle ==
    /\ sEngine = "V2"
    /\ sTarget = ""
    /\ sParent = "controller"
    /\ sEvent = [kind |-> "none", input |-> <<>>, effect |-> NoEffect]

\* V2's payload assigns window.parent = window.self where redefining
\* window.top did not throw; V1's leaves window.parent alone.
SurfaceInit ==
    /\ sEngine \in {"V1", "V2"}
    /\ sTarget \in Targets
    /\ sParent \in IF sEngine = "V2" THEN {"controller", "self"} ELSE {"controller"}
    /\ sEvent = [kind |-> "none", input |-> <<>>, effect |-> NoEffect]

CleanupIdle ==
    /\ cEngine = "V2"
    /\ cDoc = {}
    /\ cBefore = {}
    /\ cOverflow = [html |-> "", body |-> ""]
    /\ cPasses = 0
    /\ cPc = "idle"

CleanupInit ==
    /\ cEngine \in {"V1", "V2"}
    /\ cDoc \in SUBSET ElementPool
    /\ cBefore = {}
    /\ cOverflow \in {[html |-> "", body |-> ""], [html |-> "", body |-> "hidden"]}
    /\ cPasses = 0
    /\ cPc = "page"

\* The controller after init() with no saved session.
ControllerInit ==
    /\ tabs = <<>>
    /\ pages = <<>>
    /\ activeTabId = 0
    /\ navs = <<>>
    /\ globalHistory = <<>>
    /\ clock = 1
    /\ nextRef = 1
    /\ navCount = 0

RestIdle == SurfaceIdle /\ CleanupIdle /\ ControllerInit

\* The relay race of one call of fetchPage / fetchAndProcessPage.
Init == FetchInit /\ TransformIdle /\ PayloadIdle /\ RestIdle
Spec == Init /\ [][FetchNext]_vars

\* The relay race where time passes and a timer that is due runs its
\* callback: an attempt waiting for its response headers gets them or times
\* out.  Nothing is assumed of a relay once its headers have arrived.
SpecFair ==
    /\ Init
    /\ [][FetchNext]_vars
    /\ WF_vars(Tick)
    /\ \A i \in 1..MaxRelays : WF_vars(i \in Attempts /\ Timeout(i))

\* The transformer on one raw text.
InitTransform == FetchIdle /\ TransformInit /\ PayloadIdle /\ RestIdle
SpecTransform == InitTransform /\ [][TransformNext]_vars

\* The injected program in one surface.
InitPayload == FetchIdle /\ TransformIdle /\ PayloadInit /\ RestIdle
SpecPayload == InitPayload /\ [][PayloadNext]_vars

\* The payload's handlers in one rendered surface.
InitSurface == FetchIdle /\ TransformIdle /\ PayloadIdle /\ SurfaceInit /\ CleanupIdle /\ ControllerInit
SpecSurface == InitSurface /\ [][SurfaceNext]_vars

\* cleanDom's passes over one document.
InitCleanup ==
    FetchIdle /\ TransformIdle /\ PayloadIdle /\ SurfaceIdle /\ CleanupInit /\ ControllerInit
SpecCleanup == InitCleanup /\ [][CleanupNext]_vars

\* The controller.
InitController == FetchIdle /\ TransformIdle /\ PayloadIdle /\ RestIdle
SpecController == InitController /\ [][ControllerNext]_vars


-----------------------------------------------------------------------------
(* Properties *)

InFlight == {"fetching", "reading"}
Settled == {"fulfilled", "rejected"}

\* The head children of a serialized document, as the surface parses them.
HeadOf(markup) == parseFromString(markup).head

IsPayload(el) == el.tag = "script" /\ Len(el.val) > 0 /\ el.val[1] \in {"vanguard", "apex"}
IsCspMeta(el) == el.tag = "meta" /\ el.val = <<"Content-Security-Policy", permissiveCsp>>
IsBase(el, target) == el.tag = "base" /\ el.val = <<target>>

\* C1: for every relay set and every combination of per-relay outcomes, the
\* operation resolves, with the text of exactly one attempt, as soon as some
\* attempt has succeeded, and fails, with the all-proxies-failed error, if and
\* only if every attempt has failed.
C1_RetrieveOutcome ==
    opState # "idle" =>
        /\ (\E i \in Attempts : promise[i] = "fulfilled") <=> opState = "resolved"
        /\ (\A i \in Attempts : promise[i] = "rejected") <=> opState = "failed"
        /\ opState = "resolved" =>
                /\ Len(opRaw) = 1
                /\ \E i \in Attempts : promise[i] = "fulfilled" /\ value[i] = opRaw
                /\ opError = ""
        /\ opState = "failed" => opError = AllProxiesFailed /\ opResult = <<>>

\* A race of two in which the first relay failed and the second won.
C1_Witness ==
    /\ Len(proxies) = 2
    /\ opState = "resolved"
    /\ promise[1] = "rejected"
    /\ promise[2] = "fulfilled"

\* C2: a body that contains a challenge term, in any letter case, is never the
\* value the operation resolves with; the attempt that read it is rejected.
C2_ChallengeNeverReturned ==
    /\ \A i \in Attempts :
          (recvText[i] # <<>> /\ recvText[i][1] \in ChallengeBodies)
              => promise[i] = "rejected" /\ value[i] = <<>>
    /\ opRaw # <<>> => opRaw[1] \notin ChallengeBodies

\* One relay answered the upper-case challenge page, the other won with a page.
C2_Witness ==
    /\ opState = "resolved"
    /\ \E i \in Attempts : recvText[i] = <<BodyCloudflare>> /\ reason[i] = "challenge"

\* C3: once the operation has resolved with the winner, no sibling attempt is
\* still in flight: each one's controller was aborted.
C3_SiblingsCancelled ==
    opState = "resolved" =>
        \A i \in Attempts : phase[i] \in InFlight => aborted[i]

\* C4: no attempt is unsettled after its deadline, whether it awaits the
\* response or reads the body.
C4_DeadlineBoundsAttempt ==
    opState # "idle" =>
        \A i \in Attempts : now > deadline[i] => promise[i] \in Settled

\* C5: the operation's value is the text of the attempt that fulfilled first,
\* and stays so when other attempts fulfil later.
C5_FirstSuccessObserved ==
    opState = "resolved" =>
        /\ order # <<>>
        /\ opRaw = value[order[1]]
        /\ opResult = resumeFulfilled(engine, value[order[1]][1], targetUrl).result

\* Two attempts fulfilled, with different texts.
C5_Witness ==
    /\ opState = "resolved"
    /\ Len(order) = 2
    /\ value[order[1]] # value[order[2]]

\* C6 as stated: base first, CSP meta second, payload script third.
C6_BaseCspPayload ==
    tPc = "v2" =>
        LET h == HeadOf(tOut.result)
        IN  /\ Len(h) >= 3
            /\ IsBase(h[1], tTarget)
            /\ IsCspMeta(h[2])
            /\ IsPayload(h[3])

\* C6, amended: after _processAndInject the payload script is the first child of
\* head, the CSP meta the second and the base the third, whatever the head held.
C6_PayloadCspBase ==
    tPc = "v2" =>
        LET h == HeadOf(tOut.result)
        IN  /\ Len(h) = 3 + Len(parseFromString(tHtml).head)
            /\ h[1] = ElV("script", {}, _getVanguardScript(tTarget, ProxyUrl(1)))
            /\ IsCspMeta(h[2])
            /\ IsBase(h[3], tTarget)

\* A document whose head already held two elements was transformed.
C6_Witness ==
    /\ tPc = "v2"
    /\ Len(parseFromString(tHtml).head) = 2
    /\ tOut.state = "resolved"

\* C7: after the transformation the payload script is the first child of head
\* and no script of the original document precedes it.
C7_PayloadFirst ==
    tPc \in {"v1", "v2"} =>
        LET out == tOut.result
            h == HeadOf(out)
        IN  /\ h # <<>>
            /\ IsPayload(h[1])
            /\ \A i, j \in DOMAIN out :
                  (IsPayload(out[i]) /\ out[j].tag = "script" /\ ~IsPayload(out[j])) => i < j

\* C8: no element of the output carries integrity or crossorigin.
C8_NoIntegrityAnywhere ==
    tPc = "v2" =>
        \A i \in DOMAIN tOut.result :
            tOut.result[i].attrs \cap {"integrity", "crossorigin"} = {}

\* C9: for every raw text, malformed or not, _processAndInject returns markup,
\* and fetchAndProcessPage, its race fulfilled, resolves with that markup.
C9_TransformNeverRaises ==
    tPc = "v2" =>
        /\ tOut.state = "resolved"
        /\ tOut.error = ""
        /\ Len(tOut.result) >= 6
        /\ SubSeq(tOut.result, 1, 2) = <<El("html", {}), El("head", {})>>
        /\ tOut.result[Len(tOut.result)] = El("/html", {})
        /\ \A i \in DOMAIN tHtml :
              tHtml[i].tag \notin StructTags =>
                  \E j \in DOMAIN tOut.result : tOut.result[j].tag = tHtml[i].tag

\* A raw text with no head, no body and an unclosed paragraph was transformed.
C9_Witness ==
    /\ tPc = "v2"
    /\ tHtml # <<>>
    /\ \A i \in DOMAIN tHtml : tHtml[i].tag \notin StructTags \cup HeadTags
    /\ \E i \in DOMAIN tHtml : tHtml[i].tag = "p"
    /\ tOut.state = "resolved"

\* C10: when one responsibility throws, the others are still installed and no
\* exception leaves the payload.
C10_FaultIsolated ==
    pPc \in {"done", "thrown"} =>
        /\ ~pEscaped
        /\ {3, 4} \subseteq pInstalled


-----------------------------------------------------------------------------
(* The payload's click and submit listeners *)

\* The link is one a browser opens in a new top-level context.
OpensNewContext(a) == lowerAscii(a.target) = "_blank"
\* The link's address is a script pseudo-address.
IsScriptAddress(a) == a.href.kind = "js"
\* The link is a link with an address to go to.
IsLink(a) == a.isAnchor /\ a.href.kind # "none"
\* The link is one the payload is to turn into a navigation request.
Ordinary(a) == IsLink(a) /\ ~OpensNewContext(a) /\ ~IsScriptAddress(a) /\ ~a.download

\* C11: activating a link that does not open a new top-level context, has
\* no script pseudo-address and is no forced download suppresses the native
\* navigation and posts exactly one aperture-navigate message, whose url is
\* the link's address made absolute against the target address.
C11_LinkPostsOneNavigate ==
    (sEvent.kind = "click" /\ Ordinary(sEvent.input)) =>
        /\ sEvent.effect.prevented
        /\ Len(sEvent.effect.posted) = 1
        /\ sEvent.effect.posted[1].type = "aperture-navigate"
        /\ sEvent.effect.posted[1].url = UrlHref(sEvent.input.href, sTarget)

\* A link written /about in the page of https://example.com/page was
\* activated and https://example.com/about was posted.
C11_Witness ==
    /\ sEvent.kind = "click"
    /\ Ordinary(sEvent.input)
    /\ sEvent.input.href.text = "/about"
    /\ sTarget = "https://example.com/page"
    /\ sEvent.effect.prevented
    /\ sEvent.effect.posted =
          <<[type |-> "aperture-navigate", url |-> "https://example.com/about",
             to |-> sParent]>>

\* C12: a link that opens a new top-level context, has a script
\* pseudo-address or is a forced download is left alone: nothing is posted
\* and its default action is not suppressed.
C12_ExemptLinkLeftAlone ==
    (/\ sEvent.kind = "click"
     /\ IsLink(sEvent.input)
     /\ \/ OpensNewContext(sEvent.input)
        \/ IsScriptAddress(sEvent.input)
        \/ sEvent.input.download) =>
        /\ ~sEvent.effect.prevented
        /\ sEvent.effect.posted = <<>>

\* The address a form submits to: its action, the page's own address when it
\* has none.
SubmitsTo(f, target) == IF f.action.kind = "none" THEN Addr("abs", target, <<>>) ELSE f.action

\* C13: every form submission has its default suppressed and posts exactly
\* one aperture-navigate message, whose url is the form's action address
\* with the serialized fields merged into its query string, the parameters
\* the action address already had being kept; the form's method makes no
\* difference.
C13_SubmitMergesQuery ==
    (sEngine = "V2" /\ sEvent.kind = "submit") =>
        LET f == sEvent.input
            to == SubmitsTo(f, sTarget)
        IN  /\ sEvent.effect.prevented
            /\ Len(sEvent.effect.posted) = 1
            /\ sEvent.effect.posted[1].url =
                  UrlHref([to EXCEPT !.query = to.query \o f.fields], sTarget)

-----------------------------------------------------------------------------
(* The payload's request interposers *)

\* The address a call of fetch or of open was given.
GivenUrl(ev) == IF ev.kind = "fetch" THEN ev.input.resource.url ELSE ev.input.url

C15_RequestObjectPreserved ==
    (sEvent.kind = "fetch" /\ sEvent.input.resource.isRequest) =>
        LET r == sEvent.input.resource
            call == sEvent.effect.calls[1]
        IN  /\ Len(sEvent.effect.calls) = 1
            /\ call.url = ProxyUrl(1) \o encodeURIComponent(UrlHref(r.url, sTarget))
            /\ call.init.method = r.method
            /\ call.init.headers = r.headers
            /\ call.init.body = r.body

-----------------------------------------------------------------------------
(* cleanDom *)

\* The last pass removed el.
Removed(el) == \A x \in cDoc : x.name # el.name

\* C16: a pass removes an element only if it matches the selector list and
\* its computed position is fixed or sticky, so a static, relative or
\* absolute element stays whatever its id or class; a matching element whose
\* position is fixed is removed.
C16_RemovesOnlyFixedOrSticky ==
    (cPc = "swept") =>
        \A el \in cBefore :
            /\ Removed(el) =>
                  matchesSelectors(cEngine, el) /\ el.position \in {"fixed", "sticky"}
            /\ (matchesSelectors(cEngine, el) /\ el.position = "fixed") => Removed(el)

\* The DOMContentLoaded listener of the surface was installed and has run.
ListenerRan == pLoaded /\ 4 \in pInstalled

\* C17 as claimed: the listener runs one pass at the content-ready event
\* itself and three more follow at increasing delays, four in total.
C17_FourPasses ==
    ListenerRan =>
        /\ Len(pPasses) >= 1
        /\ pPasses[1] = 0
        /\ Len(pPasses) + Cardinality(pTimers) = 4

\* C17, amended: the listener runs no pass itself; it schedules three, which
\* run 50, 500 and 2000 ms after the event, in that order, and no other pass
\* ever runs in the surface.
C17_ThreeDelayedPasses ==
    LET all == <<50, 500, 2000>>
    IN  IF ListenerRan
        THEN \E k \in 0..3 :
                /\ pPasses = SubSeq(all, 1, k)
                /\ pTimers = {all[i] : i \in (k + 1)..3}
        ELSE pPasses = <<>> /\ pTimers = {}

\* All three passes have run.
C17_Witness == ListenerRan /\ pPasses = <<50, 500, 2000>> /\ pTimers = {}

-----------------------------------------------------------------------------
(* The navigation's states *)

\* The two ways through a navigation, and where it stands on them before
\* the race settles.
NavigationPaths ==
    {<<"Idle">>, <<"Idle", "Racing">>,
     <<"Idle", "Racing", "Retrieved", "Transforming", "Rendered">>,
     <<"Idle", "Racing", "Failed">>}

\* The navigation has ended.
Terminal == navPath[Len(navPath)] \in {"Rendered", "Failed"}

\* C18: a navigation moves only along Idle, Racing, Retrieved, Transforming,
\* Rendered or along Idle, Racing, Failed, and once it is in Rendered or in
\* Failed no later event (a late success, a late failure, a late timer)
\* moves it or changes its result.
C18_NavigationPath ==
    /\ [](/\ navPath \in NavigationPaths
          /\ (opState = "resolved") = (navPath[Len(navPath)] = "Rendered")
          /\ (opState = "failed") = (navPath[Len(navPath)] = "Failed"))
    /\ [][Terminal => UNCHANGED <<navPath, opState, opRaw, opResult, opError>>]_vars

\* The navigation is Rendered and a second relay succeeded after that.
C18_Witness ==
    /\ navPath = <<"Idle", "Racing", "Retrieved", "Transforming", "Rendered">>
    /\ Len(order) = 2
    /\ opResult # <<>>

\* The reasons an attempt's promise rejects with.
RelayErrors == {"status", "transport", "timeout", "challenge"}

\* C19: an attempt that failed (timeout, transport error or cancellation,
\* non-success status, challenge body) does not fail the operation while
\* another attempt is pending or has succeeded, and the error the caller
\* gets is the all-proxies-failed error, never that of one relay.
C19_SingleFailureAbsorbed ==
    /\ \A i \in Attempts :
          (/\ promise[i] = "rejected"
           /\ \E j \in Attempts \ {i} : promise[j] \in {"pending", "fulfilled"})
              => reason[i] \in RelayErrors /\ opState \in {"racing", "resolved"}
    /\ opError \notin RelayErrors
    /\ opError # "" => opState = "failed" /\ opError = AllProxiesFailed

\* One relay of two answered a challenge page while the other is pending,
\* and the operation is still racing.
C19_Witness ==
    /\ Len(proxies) = 2
    /\ promise[1] = "rejected"
    /\ reason[1] = "challenge"
    /\ promise[2] = "pending"
    /\ opState = "racing"

-----------------------------------------------------------------------------
(* The controller *)

\* What the iframe of the tab at place i shows: {} when it has no container.
Shown(i) ==
    IF pageIndex(pages, tabs[i].id) = 0 THEN <<>>
    ELSE pages[pageIndex(pages, tabs[i].id)].srcdoc

\* C20: when a navigation has ended with all relays failed, the tab carries
\* the error's message and its surface shows nothing: no partial content and
\* not the page rendered before.
C20_FailedShowsNothing ==
    \A i \in DOMAIN tabs :
        (tabs[i].error # "" /\ ~tabs[i].isLoading) =>
            /\ tabs[i].error = AllProxiesFailed
            /\ Shown(i) = <<>>

-----------------------------------------------------------------------------
(* The error of a failed retrieval *)

\* The text t occurs in the text s.
Contains(s, t) == \E i \in 1..(Len(s) - Len(t) + 1) : SubSeq(s, i, i + Len(t) - 1) = t

\* C21: when every relay attempt has failed, the error the operation throws
\* names the target address of the navigation.
C21_ErrorNamesTarget ==
    opState = "failed" => Contains(opError, targetUrl)

-----------------------------------------------------------------------------
(* The presentation mode *)

\* The mode that options.mode is not.
OtherMode(md) == IF md = "desktop" THEN "interactive" ELSE "desktop"

\* C22: the mode changes the identity header of the requests and nothing
\* else: with the other mode every request would differ in its User-Agent
\* only, and the markup the operation resolves with is the transformer's
\* output for the raw text and the target address, whatever the mode.
C22_ModeOnlyIdentity ==
    /\ \A i \in DOMAIN requests :
          LET other == Request(proxies[i], targetUrl, OtherMode(mode))
          IN  /\ other.userAgent # requests[i].userAgent
              /\ [requests[i] EXCEPT !.userAgent = other.userAgent] = other
    /\ (opState = "resolved" /\ engine = "V2") =>
          opResult = _processAndInject(opRaw[1], targetUrl).markup
    /\ (opState = "resolved" /\ engine = "V1") => opResult = opRaw[1]

\* A desktop-mode retrieval of V2 resolved with transformed markup.
C22_Witness ==
    /\ engine = "V2"
    /\ mode = "desktop"
    /\ opState = "resolved"
    /\ requests[1].userAgent = desktopUserAgent
    /\ opResult # opRaw[1]

C24_TopAndParentAreSelf ==
    (pEnv.embedded /\ pPc \notin {"idle", "s1"}) =>
        /\ windowAfterContainment(pEnv, TRUE).top = "self"
        /\ windowAfterContainment(pEnv, TRUE).parent = "self"

\* C25: after every pass neither the document element nor the body has
\* overflow hidden, whatever it was before the pass.
C25_ScrollingRestored ==
    cPc = "swept" => (cOverflow.html # "hidden" /\ cOverflow.body # "hidden")

\* C26: a pass that directly follows a pass, the page having changed nothing
\* in between, leaves the elements, their positions and the overflow of the
\* document element and the body as the first pass left them.
C26_PassIdempotent ==
    [][(cPc = "swept" /\ CleanDomRun) => (cDoc' = cDoc /\ cOverflow' = cOverflow)]_vars

\* C27: once the operation was invoked, each configured relay has been sent
\* exactly one request, and no step of the operation (a failing attempt, the
\* failure of all attempts) sends another.
C27_OneRequestPerRelay ==
    /\ [](opState # "idle" =>
            \A i \in Attempts :
                Cardinality({k \in DOMAIN requests : requests[k].url[1] = proxies[i]}) = 1)
    /\ [][opState # "idle" => requests' = requests]_vars

\* Both relays failed, one by its status and one by timeout, and the
\* operation failed with two requests sent.
C27_Witness ==
    /\ opState = "failed"
    /\ Len(proxies) = 2
    /\ Len(requests) = 2
    /\ reason[1] = "status"
    /\ reason[2] = "timeout"

\* C28: every attempt requests the relay's template followed by the
\* percent-encoded target, with the desktop identity when the mode is desktop
\* and the mobile identity when it is interactive, and with the header that
\* marks the request as script-initiated.
C28_AttemptRequest ==
    \A i \in DOMAIN requests :
        /\ requests[i].url[1] = proxies[i]
        /\ targetUrl = "https://example.com/page" =>
              requests[i].url[1] \o requests[i].url[2] =
                  proxies[i] \o "https%3A%2F%2Fexample.com%2Fpage"
        /\ targetUrl = "https://example.org/" =>
              requests[i].url[1] \o requests[i].url[2] =
                  proxies[i] \o "https%3A%2F%2Fexample.org%2F"
        /\ mode = "desktop" => requests[i].userAgent = desktopUserAgent
        /\ mode = "interactive" => requests[i].userAgent = mobileUserAgent
        /\ requests[i].requestedWith = "XMLHttpRequest"

\* An interactive retrieval of https://example.com/page asks the first relay
\* for the encoded address with the mobile identity, a desktop one would not.
C28_Witness ==
    /\ mode = "interactive"
    /\ Len(requests) = 2
    /\ requests[1].url[1] \o requests[1].url[2] =
          "https://api.allorigins.win/raw?url=https%3A%2F%2Fexample.com%2Fpage"
    /\ requests[2].userAgent = mobileUserAgent
    /\ requests[2].userAgent # desktopUserAgent

C30_LastRequestedWins ==
    [][\A k \in DOMAIN navs, pageHTML \in PageBodies :
          (navs[k].overtaken /\ NavSucceed(k, pageHTML)) =>
              LET i == refIndex(tabs, navs[k].ref)
              IN  /\ pages' = pages
                  /\ i # 0 => /\ tabs'[i].url = tabs[i].url
                              /\ tabs'[i].title = tabs[i].title
                              /\ tabs'[i].mode = tabs[i].mode]_vars

\* C31: a retrieval that was started eventually resolves or fails, given
\* that each relay answers its response headers or its timer expires.
C31_EventuallyTerminal ==
    (opState = "racing") ~> (opState \in {"resolved", "failed"})

\* C32: a tab's isLoading flag is true exactly while a call of navigateTo
\* for that tab waits for its retrieval, also when several calls overlap.
C32_LoadingWhileInFlight ==
    \A i \in DOMAIN tabs :
        tabs[i].isLoading <=> (\E k \in DOMAIN navs : navs[k].ref = tabs[i].ref)

\* C33: whenever a tab has a url and no call of navigateTo for it waits for
\* its retrieval, history[historyIndex] of the tab is the tab's url.
C33_HistoryPointsAtUrl ==
    \A i \in DOMAIN tabs :
        (tabs[i].url # "" /\ ~\E k \in DOMAIN navs : navs[k].ref = tabs[i].ref) =>
            /\ tabs[i].historyIndex >= 0
            /\ tabs[i].historyIndex + 1 <= Len(tabs[i].history)
            /\ tabs[i].history[tabs[i].historyIndex + 1] = tabs[i].url

\* C34: for every tab -1 <= historyIndex <= history.length - 1, and
\* historyIndex is -1 only when the history is empty.
C34_HistoryIndexInRange ==
    \A i \in DOMAIN tabs :
        /\ -1 <= tabs[i].historyIndex
        /\ tabs[i].historyIndex <= Len(tabs[i].history) - 1
        /\ tabs[i].historyIndex = -1 => tabs[i].history = <<>>

\* Two pages were loaded, back was pressed and the retrieval failed: the
\* index is 0 in a history of two, both bounds and the back handler exercised.
C34_Witness ==
    \E i \in DOMAIN tabs :
        /\ tabs[i].history = <<"https://example.com/page", "https://example.org/">>
        /\ tabs[i].historyIndex = 0
        /\ tabs[i].error = AllProxiesFailed
        /\ navs = <<>>

\* C35: the ids of the open tabs are pairwise distinct.
C35_TabIdsDistinct ==
    \A i, j \in DOMAIN tabs : i # j => tabs[i].id # tabs[j].id

=============================================================================
